---- MODULE Spec2Model ----
(***************************************************************************)
(* Matcha3: the game reducer (gameReducer) and the store that drives it    *)
(* (GameStore) of src/other_ideas/game-reducer.js.                         *)
(*                                                                         *)
(* The reducer is a pure function of (state, action); it is written here   *)
(* as the operator gameReducer over records.  Two specifications use it:   *)
(*   Spec       every event of Actions may be dispatched at any time, with *)
(*              boards produced by generateBoard (the reducer on its own); *)
(*   StoreSpec  events are dispatched by GameStore: the user's startGame   *)
(*              and selectTile calls, the tick interval and the timeouts   *)
(*              scheduled by handleSideEffects / runAutoMatchSequence.     *)
(* The board is scaled: the source builds 12 kana x 3 types on a 6 x 6     *)
(* grid; the model builds KanaPerBoard kana x 3 types on a                 *)
(* KanaPerBoard x 3 grid, and the level-complete threshold (12 in the      *)
(* source, the number of triples of a board) scales with it.               *)
(***************************************************************************)
EXTENDS Integers, Sequences, FiniteSets, TLC

VARIABLES state, timerId, intervals, animationTimeouts, autoMatchTimeouts,
          levelTimeouts,
          \* history: the kana indices of the triples whose removal completed
          \* a level since the user last called startGame (no field of the
          \* program; recorded by the store's dispatch, not by the reducer)
          matchedKana,
          \* the page of src/unnamed/part_001: the positions of the board
          \* elements that showHint has given a highlight (style.boxShadow)
          hint

vars == <<state, timerId, intervals, animationTimeouts, autoMatchTimeouts,
          levelTimeouts, matchedKana, hint>>

storeVars == <<timerId, intervals, animationTimeouts, autoMatchTimeouts,
               levelTimeouts, matchedKana>>

(***************************************************************************)
(* Bounds.                                                                 *)
(***************************************************************************)
\* kana triples on one board (12 in the source: slice(0, 12), 36 tiles)
KanaPerBoard == 3
\* within one call of generateBoard Math.random() returns one value, drawn
\* from {0/RandDen, ..., (RandDen-1)/RandDen}
RandDen == 3
\* highest level the store advances to
MaxLevel == 2
\* timeouts that may be pending when the user starts a new game
MaxPending == 1

(***************************************************************************)
(* Program constants.                                                      *)
(***************************************************************************)
StartTime == 30
MatchBonus == 5
MatchScore == 100
NumTypes == 3

\* kanaMap.length (46 in the source): one kana more than a board takes
KanaCount == KanaPerBoard + 1
\* matches that complete a level (state.matches >= 12: every triple of a board)
LevelMatches == KanaPerBoard
Rows == KanaPerBoard
Cols == NumTypes

GamePhase == {"MENU", "PLAYING", "GAME_OVER"}
PlayState == {"WAITING_FIRST_MOVE", "SELECTING", "SHAKING", "MATCHING",
              "AUTO_MATCHING", "LEVEL_COMPLETE"}
Actions == {"START_GAME", "SELECT_TILE", "ANIMATION_COMPLETE", "TIMER_TICK",
            "AUTO_MATCH_STEP"}
\* JavaScript null for playState and animation
Null == "null"
allTypes == <<"hiragana", "katakana", "romaji">>
\* JavaScript null in a board cell
NoTile == [kanaIndex |-> -1, type |-> "none"]
\* remainingTiles[step] past the end of the array
Undefined == [row |-> -1, col |-> -1]

Min(a, b) == IF a < b THEN a ELSE b

(***************************************************************************)
(* Board helpers.                                                          *)
(***************************************************************************)
\* state.board[row][col], rows and columns counted from 0
Cell(board, row, col) == board[row + 1][col + 1]

TileAt(board, pos) == Cell(board, pos.row, pos.col)

\* the positions of a board in the order of board.forEach(row.forEach)
PositionsOf(board) ==
    IF Len(board) = 0 THEN << >>
    ELSE [i \in 1..(Len(board) * Len(board[1])) |->
            [row |-> (i - 1) \div Len(board[1]), col |-> (i - 1) % Len(board[1])]]

\* positions holding a tile, in row-major order
RemainingPositions(board) ==
    SelectSeq(PositionsOf(board), LAMBDA p : TileAt(board, p) # NoTile)

\* newBoard.flat().filter(t => t !== null).length
RemainingCount(board) == Len(RemainingPositions(board))

SeqToSet(s) == {s[i] : i \in 1..Len(s)}

\* a mutant of RemoveTiles: only the first animating tile is removed
RemoveFirstTile(board, tiles) ==
    [r \in 1..Len(board) |->
        [c \in 1..Len(board[r]) |->
            IF Len(tiles) > 0 /\ [row |-> r - 1, col |-> c - 1] = tiles[1]
            THEN NoTile ELSE board[r][c]]]

\* newBoard[row][col] = null for every animating tile
RemoveTiles(board, tiles) ==
    [r \in 1..Len(board) |->
        [c \in 1..Len(board[r]) |->
            IF [row |-> r - 1, col |-> c - 1] \in SeqToSet(tiles)
            THEN NoTile ELSE board[r][c]]]

(***************************************************************************)
(* generateBoard: Fisher-Yates over the kana indices, 3 tiles per kana,    *)
(* Fisher-Yates over the tiles, row-major placement.  rnd is the numerator *)
(* of the value Math.random() returns (rnd / RandDen).                     *)
(***************************************************************************)
Swap(arr, i, j) == [arr EXCEPT ![i] = arr[j], ![j] = arr[i]]

\* for (i = n - 1; i > 0; i--) { j = floor(random * (i + 1)); swap(i, j) }
\* (indices from 0 in the source, from 1 here)
RECURSIVE Shuffle(_, _, _)
Shuffle(arr, i, rnd) ==
    IF i <= 0 THEN arr
    ELSE Shuffle(Swap(arr, i + 1, ((rnd * (i + 1)) \div RandDen) + 1), i - 1, rnd)

FisherYates(arr, rnd) == Shuffle(arr, Len(arr) - 1, rnd)

\* a mutant of generateBoard: every tile is given the first kana of the pool
generateBoardOneKana(rnd) ==
    LET allIndices == FisherYates([n \in 1..KanaCount |-> n - 1], rnd)
        tiles      == [t \in 1..(KanaPerBoard * NumTypes) |->
                         [kanaIndex |-> allIndices[1],
                          type      |-> allTypes[((t - 1) % NumTypes) + 1]]]
        shuffled   == FisherYates(tiles, rnd)
    IN  [r \in 1..Rows |-> [c \in 1..Cols |-> shuffled[(r - 1) * Cols + c]]]

generateBoard(rnd) ==
    LET allIndices == FisherYates([n \in 1..KanaCount |-> n - 1], rnd)
        \* allIndices.slice(0, 12)
        kanaPool   == [k \in 1..KanaPerBoard |-> allIndices[k]]
        tiles      == [t \in 1..(KanaPerBoard * NumTypes) |->
                         [kanaIndex |-> kanaPool[((t - 1) \div NumTypes) + 1],
                          type      |-> allTypes[((t - 1) % NumTypes) + 1]]]
        shuffled   == FisherYates(tiles, rnd)
    IN  [r \in 1..Rows |-> [c \in 1..Cols |-> shuffled[(r - 1) * Cols + c]]]

Boards == {generateBoard(rnd) : rnd \in 0..(RandDen - 1)}

(***************************************************************************)
(* createInitialState                                                      *)
(***************************************************************************)
createInitialState ==
    [phase          |-> "MENU",
     playState      |-> Null,
     animation      |-> Null,
     animatingTiles |-> << >>,
     board          |-> << >>,
     selectedTiles  |-> << >>,
     score          |-> 0,
     matches        |-> 0,
     level          |-> 1,
     timeRemaining  |-> StartTime,
     timerRunning   |-> FALSE,
     autoMatchStep  |-> 0]

(***************************************************************************)
(* gameReducer, one operator per case of the switch.                       *)
(***************************************************************************)
\* a mutant of reduceStartGame: the new game is spread over the old state
reduceStartGameKeeping(s, board, level) ==
    [s EXCEPT
        !.phase     = "PLAYING",
        !.playState = "WAITING_FIRST_MOVE",
        !.board     = board,
        !.level     = IF level = 0 THEN 1 ELSE level]

\* case START_GAME; action.level || 1
reduceStartGame(s, board, level) ==
    [createInitialState EXCEPT
        !.phase     = "PLAYING",
        !.playState = "WAITING_FIRST_MOVE",
        !.board     = board,
        !.level     = IF level = 0 THEN 1 ELSE level]

\* state.selectedTiles.findIndex(t => t.row === row && t.col === col), 0 for -1
existingIndex(selected, row, col) ==
    IF \E i \in 1..Len(selected) : selected[i].row = row /\ selected[i].col = col
    THEN CHOOSE i \in 1..Len(selected) :
            /\ selected[i].row = row /\ selected[i].col = col
            /\ \A j \in 1..(i - 1) : ~(selected[j].row = row /\ selected[j].col = col)
    ELSE 0

\* a mutant of RemoveAt: the first entry is removed, whatever the index
RemoveFirst(selected, idx) ==
    [i \in 1..(Len(selected) - 1) |-> selected[i + 1]]

\* state.selectedTiles.filter((_, i) => i !== existingIndex)
RemoveAt(selected, idx) ==
    [i \in 1..(Len(selected) - 1) |-> IF i < idx THEN selected[i] ELSE selected[i + 1]]

\* a mutant of hasSameType: the same-type check is dropped
hasSameTypeNever(s, tile) == FALSE

\* state.selectedTiles.some(pos => board[pos.row][pos.col]?.type === tile.type)
hasSameType(s, tile) ==
    \E i \in 1..Len(s.selectedTiles) :
        TileAt(s.board, s.selectedTiles[i]).type = tile.type

\* a mutant of isMatch: any three tiles of distinct types match
isMatchAlways(board, selected) == TRUE

\* tiles.every(t => t.kanaIndex === tiles[0].kanaIndex)
isMatch(board, selected) ==
    \A i \in 1..Len(selected) :
        TileAt(board, selected[i]).kanaIndex = TileAt(board, selected[1]).kanaIndex

\* a mutant of startShake: a mismatch costs a match bonus of time
startShakePenalised(s, newSelected) ==
    [s EXCEPT
        !.playState      = "SHAKING",
        !.animation      = "shake",
        !.animatingTiles = newSelected,
        !.selectedTiles  = newSelected,
        !.timeRemaining  = IF s.timeRemaining > MatchBonus
                           THEN s.timeRemaining - MatchBonus ELSE 1,
        !.timerRunning   = TRUE]

\* the state a mismatch (2 or 3 tiles) returns
startShake(s, newSelected) ==
    [s EXCEPT
        !.playState      = "SHAKING",
        !.animation      = "shake",
        !.animatingTiles = newSelected,
        !.selectedTiles  = newSelected,
        !.timerRunning   = TRUE]

\* a mutant of startMatch: the match is counted but not scored
startMatchUnscored(s, newSelected, newPlayState) ==
    [s EXCEPT
        !.playState      = "MATCHING",
        !.animation      = "match",
        !.animatingTiles = newSelected,
        !.selectedTiles  = newSelected,
        !.matches        = s.matches + 1,
        !.timeRemaining  = Min(s.timeRemaining + MatchBonus, StartTime),
        !.timerRunning   = (newPlayState = "SELECTING")]

\* the state a 3-tile match returns
startMatch(s, newSelected, newPlayState) ==
    [s EXCEPT
        !.playState      = "MATCHING",
        !.animation      = "match",
        !.animatingTiles = newSelected,
        !.selectedTiles  = newSelected,
        !.score          = s.score + MatchScore,
        !.matches        = s.matches + 1,
        !.timeRemaining  = Min(s.timeRemaining + MatchBonus, StartTime),
        !.timerRunning   = (newPlayState = "SELECTING")]

\* a mutant of acceptsInput: only the phase is looked at
acceptsInputPhaseOnly(s) == s.phase = "PLAYING"

\* the three early returns of SELECT_TILE: "can only select during certain states"
acceptsInput(s) ==
    /\ s.phase = "PLAYING"
    /\ s.playState = "WAITING_FIRST_MOVE" \/ s.playState = "SELECTING"
    /\ s.animation = Null

\* a mutant of earlyMismatch: any second tile is taken for a mismatch
earlyMismatchAlways(board, newSelected) == Len(newSelected) = 2

\* newSelected.length === 2 and t1.kanaIndex !== t2.kanaIndex
earlyMismatch(board, newSelected) ==
    /\ Len(newSelected) = 2
    /\ TileAt(board, newSelected[1]).kanaIndex # TileAt(board, newSelected[2]).kanaIndex

\* case SELECT_TILE
reduceSelectTile(s, row, col) ==
    IF ~acceptsInput(s) THEN s
    ELSE
    LET tile == Cell(s.board, row, col) IN
    IF tile = NoTile THEN s
    ELSE IF existingIndex(s.selectedTiles, row, col) # 0
    THEN [s EXCEPT !.selectedTiles =
              RemoveAt(s.selectedTiles, existingIndex(s.selectedTiles, row, col))]
    ELSE IF hasSameType(s, tile) THEN s
    ELSE
    LET newSelected  == Append(s.selectedTiles, [row |-> row, col |-> col])
        newPlayState == IF s.playState = "WAITING_FIRST_MOVE"
                        THEN "SELECTING" ELSE s.playState
    IN  IF earlyMismatch(s.board, newSelected)
        THEN startShake(s, newSelected)
        ELSE IF Len(newSelected) = 3
        THEN IF isMatch(s.board, newSelected)
             THEN startMatch(s, newSelected, newPlayState)
             ELSE startShake(s, newSelected)
        ELSE [s EXCEPT
                 !.selectedTiles = newSelected,
                 !.playState     = newPlayState,
                 !.timerRunning  = (newPlayState = "SELECTING")]

\* a mutant of shakeComplete: only the tile added last is deselected
shakeCompleteRetaining(s) ==
    [s EXCEPT
        !.playState      = "SELECTING",
        !.animation      = Null,
        !.animatingTiles = << >>,
        !.selectedTiles  = SubSeq(s.selectedTiles, 1, Len(s.selectedTiles) - 1)]

\* case ANIMATION_COMPLETE, animation 'shake'
shakeComplete(s) ==
    [s EXCEPT
        !.playState      = "SELECTING",
        !.animation      = Null,
        !.animatingTiles = << >>,
        !.selectedTiles  = << >>]

\* a mutant of autoMatchDue: auto-match also starts on fewer than 3 tiles
autoMatchDueAtMost(remaining) == remaining <= 3

\* if (remaining === 3): start auto-match
autoMatchDue(remaining) == remaining = 3

\* a mutant of pausedTimer: the timer keeps its value when auto-match starts
pausedTimerKept(s) == s.timerRunning

\* timerRunning: false, "pause during auto-match"
pausedTimer(s) == FALSE

\* a mutant of levelDone: one match completes the level
levelDoneEarly(matches) == matches >= 1

\* else if (state.matches >= 12): level complete
levelDone(matches) == matches >= LevelMatches

\* a mutant of matchComplete: the tiles are removed, the selection is kept
matchCompleteKeepsSelection(s) ==
    [s EXCEPT
        !.board          = RemoveTiles(s.board, s.animatingTiles),
        !.playState      = "SELECTING",
        !.animation      = Null,
        !.animatingTiles = << >>]

\* case ANIMATION_COMPLETE, animation 'match'
matchComplete(s) ==
    LET newBoard  == RemoveTiles(s.board, s.animatingTiles)
        remaining == RemainingCount(newBoard)
    IN  IF autoMatchDue(remaining)
        THEN [s EXCEPT
                 !.board          = newBoard,
                 !.playState      = "AUTO_MATCHING",
                 !.animation      = "autoMatch",
                 !.animatingTiles = << >>,
                 !.selectedTiles  = << >>,
                 !.autoMatchStep  = 0,
                 !.timerRunning   = pausedTimer(s)]
        ELSE IF levelDone(s.matches)
        THEN [s EXCEPT
                 !.board          = newBoard,
                 !.playState      = "LEVEL_COMPLETE",
                 !.animation      = Null,
                 !.animatingTiles = << >>,
                 !.selectedTiles  = << >>]
        ELSE [s EXCEPT
                 !.board          = newBoard,
                 !.playState      = "SELECTING",
                 !.animation      = Null,
                 !.animatingTiles = << >>,
                 !.selectedTiles  = << >>]

\* a mutant of reduceAnimationComplete: without a match animation the shake
\* resolution runs, also when no animation is in progress
reduceAnimationCompleteAlways(s) ==
    IF s.animation = "match" THEN matchComplete(s) ELSE shakeComplete(s)

\* case ANIMATION_COMPLETE
reduceAnimationComplete(s) ==
    IF s.animation = "shake" THEN shakeComplete(s)
    ELSE IF s.animation = "match" THEN matchComplete(s)
    ELSE s

\* a mutant of nextAutoMatchTile: the remaining tiles are taken from the end
nextAutoMatchTileFromEnd(board, step) ==
    IF step < Len(RemainingPositions(board))
    THEN RemainingPositions(board)[Len(RemainingPositions(board)) - step]
    ELSE Undefined

\* remainingTiles[step]: undefined past the end of the array
nextAutoMatchTile(board, step) ==
    IF step < Len(RemainingPositions(board))
    THEN RemainingPositions(board)[step + 1]
    ELSE Undefined

\* case AUTO_MATCH_STEP.  The entry the source appends also carries the tile
\* ({row, col, tile}); nothing reads that field, so the position is kept.
reduceAutoMatchStep(s) ==
    IF s.playState # "AUTO_MATCHING" THEN s
    ELSE IF s.autoMatchStep < 3
    THEN [s EXCEPT
             !.selectedTiles = Append(s.selectedTiles,
                                      nextAutoMatchTile(s.board, s.autoMatchStep)),
             !.autoMatchStep = s.autoMatchStep + 1]
    ELSE [s EXCEPT
             !.playState      = "MATCHING",
             !.animation      = "match",
             !.animatingTiles = s.selectedTiles,
             !.score          = s.score + MatchScore,
             !.matches        = s.matches + 1,
             !.timeRemaining  = Min(s.timeRemaining + MatchBonus, StartTime)]

\* a mutant of reduceTimerTick: the clock runs whether or not timerRunning
reduceTimerTickUnguarded(s) ==
    IF s.timeRemaining - 1 <= 0
    THEN [s EXCEPT
             !.phase         = "GAME_OVER",
             !.playState     = Null,
             !.timerRunning  = FALSE,
             !.timeRemaining = 0]
    ELSE [s EXCEPT !.timeRemaining = s.timeRemaining - 1]

\* case TIMER_TICK
reduceTimerTick(s) ==
    IF ~s.timerRunning THEN s
    ELSE IF s.timeRemaining - 1 <= 0
    THEN [s EXCEPT
             !.phase         = "GAME_OVER",
             !.playState     = Null,
             !.timerRunning  = FALSE,
             !.timeRemaining = 0]
    ELSE [s EXCEPT !.timeRemaining = s.timeRemaining - 1]

\* the events of Actions as records
StartGameAction(board, level) == [type |-> "START_GAME", board |-> board, level |-> level]
SelectTileAction(row, col) == [type |-> "SELECT_TILE", row |-> row, col |-> col]
AnimationCompleteAction == [type |-> "ANIMATION_COMPLETE"]
TimerTickAction == [type |-> "TIMER_TICK"]
AutoMatchStepAction == [type |-> "AUTO_MATCH_STEP"]

gameReducer(s, action) ==
    CASE action.type = "START_GAME"         -> reduceStartGame(s, action.board, action.level)
      [] action.type = "SELECT_TILE"        -> reduceSelectTile(s, action.row, action.col)
      [] action.type = "ANIMATION_COMPLETE" -> reduceAnimationComplete(s)
      [] action.type = "TIMER_TICK"         -> reduceTimerTick(s)
      [] action.type = "AUTO_MATCH_STEP"    -> reduceAutoMatchStep(s)
      [] OTHER                              -> s

\* the highlight after a new state is notified: the page's subscriber
\* rebuilds the board elements (renderBoard: board.innerHTML = '') while the
\* game screen is shown, and leaves them alone otherwise
hintAfter(newState) == IF newState.phase = "PLAYING" THEN {} ELSE hint

(***************************************************************************)
(* The reducer on its own: any event at any time.                          *)
(***************************************************************************)
Init ==
    /\ state = createInitialState
    /\ timerId = FALSE
    /\ intervals = 0
    /\ animationTimeouts = 0
    /\ autoMatchTimeouts = 0
    /\ levelTimeouts = << >>
    /\ matchedKana = {}
    /\ hint = {}

OnStartGame ==
    \E board \in Boards, level \in 0..MaxLevel :
        /\ state' = gameReducer(state, StartGameAction(board, level))
        /\ hint' = hintAfter(state')
        /\ UNCHANGED storeVars

OnSelectTile ==
    \E row \in 0..(Rows - 1), col \in 0..(Cols - 1) :
        /\ state' = gameReducer(state, SelectTileAction(row, col))
        /\ hint' = hintAfter(state')
        /\ UNCHANGED storeVars

OnAnimationComplete ==
    /\ state' = gameReducer(state, AnimationCompleteAction)
    /\ hint' = hintAfter(state')
    /\ UNCHANGED storeVars

OnTimerTick ==
    /\ state' = gameReducer(state, TimerTickAction)
    /\ hint' = hintAfter(state')
    /\ UNCHANGED storeVars

OnAutoMatchStep ==
    /\ state' = gameReducer(state, AutoMatchStepAction)
    /\ hint' = hintAfter(state')
    /\ UNCHANGED storeVars

Next ==
    \/ OnStartGame
    \/ OnSelectTile
    \/ OnAnimationComplete
    \/ OnTimerTick
    \/ OnAutoMatchStep

Spec == Init /\ [][Next]_vars

(***************************************************************************)
(* GameStore: dispatch with handleSideEffects, the public API and the      *)
(* callbacks of setInterval / setTimeout.  A pending timeout is a unit of  *)
(* a counter (its callback does not depend on when it was scheduled); the  *)
(* level-complete timeouts, which capture newState.level and all wait the  *)
(* same 2000 ms, form a queue.  Delays are not measured: a pending timeout *)
(* may fire at any later step, before or after any user call.              *)
(***************************************************************************)
\* startTimer / stopTimer, as handleSideEffects calls them
timerIdAfter(prevState, newState) ==
    IF ~prevState.timerRunning /\ newState.timerRunning THEN TRUE
    ELSE IF prevState.timerRunning /\ ~newState.timerRunning THEN FALSE
    ELSE timerId

\* a mutant of intervalsAfter: stopTimer forgets to clear the interval
intervalsAfterUncleared(prevState, newState) ==
    IF ~prevState.timerRunning /\ newState.timerRunning THEN intervals + 1
    ELSE intervals

\* the intervals alive after startTimer / stopTimer
intervalsAfter(prevState, newState) ==
    IF ~prevState.timerRunning /\ newState.timerRunning THEN intervals + 1
    ELSE IF prevState.timerRunning /\ ~newState.timerRunning
    THEN (IF timerId THEN intervals - 1 ELSE intervals)
    ELSE intervals

\* duration > 0 for 'shake' (500) and 'match' (600), 0 for 'autoMatch'
schedulesAnimationComplete(prevState, newState) ==
    /\ prevState.animation = Null
    /\ newState.animation \in {"shake", "match"}

\* runAutoMatchSequence is called
startsAutoMatchSequence(prevState, newState) ==
    /\ newState.playState = "AUTO_MATCHING"
    /\ prevState.playState # "AUTO_MATCHING"

\* the level-complete timeout is scheduled
schedulesNextLevel(prevState, newState) ==
    /\ newState.playState = "LEVEL_COMPLETE"
    /\ prevState.playState # "LEVEL_COMPLETE"

\* the kana indices that have a tile on the board
KanaOnBoard(board) ==
    {TileAt(board, p).kanaIndex : p \in SeqToSet(RemainingPositions(board))}

\* the history after a dispatch: emptied by the user's startGame, kept by the
\* level-complete START_GAME, and extended, when the dispatch completes a
\* level, by the kana of the triple it removed from the board
matchedKanaAfter(prevState, newState, action, firedLevel) ==
    IF action.type = "START_GAME"
    THEN (IF firedLevel = 1 THEN matchedKana ELSE {})
    ELSE IF schedulesNextLevel(prevState, newState)
    THEN matchedKana \cup (KanaOnBoard(prevState.board) \ KanaOnBoard(newState.board))
    ELSE matchedKana

\* dispatch(action), called with firedAnim / firedAuto / firedLevel timeouts
\* of each kind consumed by the callback that makes the call
dispatch(action, firedAnim, firedAuto, firedLevel) ==
    LET prevState == state
        newState  == gameReducer(state, action)
    IN  /\ state' = newState
        /\ timerId' = timerIdAfter(prevState, newState)
        /\ intervals' = intervalsAfter(prevState, newState)
        /\ animationTimeouts' = (animationTimeouts - firedAnim)
              + (IF schedulesAnimationComplete(prevState, newState) THEN 1 ELSE 0)
        /\ autoMatchTimeouts' = (autoMatchTimeouts - firedAuto)
              + (IF startsAutoMatchSequence(prevState, newState) THEN 4 ELSE 0)
        /\ levelTimeouts' =
              (IF firedLevel = 1 THEN Tail(levelTimeouts) ELSE levelTimeouts)
              \o (IF schedulesNextLevel(prevState, newState)
                  THEN <<newState.level + 1>> ELSE << >>)
        /\ matchedKana' = matchedKanaAfter(prevState, newState, action, firedLevel)
        /\ hint' = hintAfter(newState)

\* GameStore.startGame()
startGame ==
    /\ animationTimeouts + autoMatchTimeouts + Len(levelTimeouts) <= MaxPending
    /\ \E board \in Boards :
          dispatch(StartGameAction(board,
                       IF state.phase = "GAME_OVER" THEN 1 ELSE state.level), 0, 0, 0)

\* GameStore.selectTile(row, col)
selectTile ==
    \E row \in 0..(Rows - 1), col \in 0..(Cols - 1) :
        dispatch(SelectTileAction(row, col), 0, 0, 0)

\* the setInterval callback of startTimer
TickInterval ==
    /\ intervals > 0
    /\ dispatch(TimerTickAction, 0, 0, 0)

\* the setTimeout callback of handleSideEffects (animation completion)
AnimationTimeout ==
    /\ animationTimeouts > 0
    /\ dispatch(AnimationCompleteAction, 1, 0, 0)

\* a setTimeout callback of runAutoMatchSequence
AutoMatchTimeout ==
    /\ autoMatchTimeouts > 0
    /\ IF state.playState = "AUTO_MATCHING"
       THEN dispatch(AutoMatchStepAction, 0, 1, 0)
       ELSE /\ autoMatchTimeouts' = autoMatchTimeouts - 1
            /\ UNCHANGED <<state, timerId, intervals, animationTimeouts, levelTimeouts,
                           matchedKana, hint>>

\* the setTimeout callback of handleSideEffects (level complete)
LevelCompleteTimeout ==
    /\ Len(levelTimeouts) > 0
    /\ Head(levelTimeouts) <= MaxLevel
    /\ \E board \in Boards :
          dispatch(StartGameAction(board, Head(levelTimeouts)), 0, 0, 1)

StoreNext ==
    \/ startGame
    \/ selectTile
    \/ TickInterval
    \/ AnimationTimeout
    \/ AutoMatchTimeout
    \/ LevelCompleteTimeout

StoreSpec == Init /\ [][StoreNext]_vars

\* scheduled timers fire; the user is under no obligation
StoreFairness ==
    /\ WF_vars(TickInterval)
    /\ WF_vars(AnimationTimeout)
    /\ WF_vars(AutoMatchTimeout)
    /\ WF_vars(LevelCompleteTimeout)

FairStoreSpec == StoreSpec /\ StoreFairness

(***************************************************************************)
(* deriveUIState: what the renderer is given.                              *)
(***************************************************************************)
\* selectedTiles.map(pos => board[pos.row][pos.col]?.type).filter(Boolean)
typesOfSelection(selectedTiles, board) ==
    SelectSeq([i \in 1..Len(selectedTiles) |-> TileAt(board, selectedTiles[i]).type],
              LAMBDA type : type # NoTile.type)

\* a mutant of deriveNeededTypes: without the early return of an empty selection
deriveNeededTypesOfAny(selectedTiles, board) ==
    SelectSeq(allTypes,
              LAMBDA type : type \notin SeqToSet(typesOfSelection(selectedTiles, board)))

deriveNeededTypes(selectedTiles, board) ==
    IF Len(selectedTiles) = 0 THEN << >>
    ELSE SelectSeq(allTypes,
             LAMBDA type : type \notin SeqToSet(typesOfSelection(selectedTiles, board)))

deriveUIState(s) ==
    [showMenu        |-> s.phase = "MENU",
     showGame        |-> s.phase = "PLAYING",
     showGameOver    |-> s.phase = "GAME_OVER",
     canInteract     |-> /\ s.phase = "PLAYING"
                         /\ s.animation = Null
                         /\ s.playState # "AUTO_MATCHING",
     newGameDisabled |-> s.phase = "PLAYING" /\ s.playState = "WAITING_FIRST_MOVE",
     showErrorPulse  |-> s.animation = "shake",
     timerWarning    |-> s.timeRemaining <= 10,
     fadedTypes      |-> typesOfSelection(s.selectedTiles, s.board),
     neededTypes     |-> deriveNeededTypes(s.selectedTiles, s.board)]

(***************************************************************************)
(* The page of src/unnamed/part_001: showHint reads game.state and         *)
(* highlights board elements; every event of the reducer re-renders.       *)
(***************************************************************************)
\* groups[k]: the positions of the tiles with kanaIndex k, in board order
hintGroup(board, k) ==
    SelectSeq(RemainingPositions(board), LAMBDA p : TileAt(board, p).kanaIndex = k)

\* a mutant of isCompleteSet: no group is taken to be complete
isCompleteSetNever(board, k) == FALSE

\* types.includes('hiragana') && types.includes('katakana') && types.includes('romaji')
isCompleteSet(board, k) ==
    LET group == hintGroup(board, k)
    IN  \A i \in 1..NumTypes :
            \E j \in 1..Len(group) : TileAt(board, group[j]).type = allTypes[i]

\* the group showHint highlights: for (kanaIndex in groups) visits the integer
\* keys in ascending order and breaks at the first complete set
hintTiles(s) ==
    LET complete == {k \in KanaOnBoard(s.board) : isCompleteSet(s.board, k)}
    IN  IF complete = {} THEN {}
        ELSE SeqToSet(hintGroup(s.board,
                 CHOOSE k \in complete : \A other \in complete : k <= other))

\* a mutant of showHint: the call also drops the selection
showHintDeselecting ==
    /\ hint' = hint \cup hintTiles(state)
    /\ state' = [state EXCEPT !.selectedTiles = << >>]
    /\ UNCHANGED storeVars

\* showHint()
showHint ==
    /\ hint' = hint \cup hintTiles(state)
    /\ UNCHANGED state
    /\ UNCHANGED storeVars

\* the setTimeout callbacks of showHint: tile.style.boxShadow = ''
HintTimeout ==
    /\ hint # {}
    /\ hint' = {}
    /\ UNCHANGED state
    /\ UNCHANGED storeVars

HintNext ==
    \/ Next
    \/ showHint
    \/ HintTimeout

HintSpec == Init /\ [][HintNext]_vars

(***************************************************************************)
(* Properties.                                                             *)
(***************************************************************************)
Positions == {[row |-> r, col |-> c] : r \in 0..(Rows - 1), c \in 0..(Cols - 1)}

Select(s, pos) == gameReducer(s, SelectTileAction(pos.row, pos.col))

Acknowledge(s) == gameReducer(s, AnimationCompleteAction)

\* a board has been supplied (the state is past MENU)
HasBoard(s) == Len(s.board) > 0

\* the types of the tiles a selection refers to
SelectedTypes(s) ==
    {TileAt(s.board, s.selectedTiles[i]).type : i \in 1..Len(s.selectedTiles)}

\* three positions holding the three types of one kana index
CompleteTriple(board, a, b, c) ==
    /\ TileAt(board, a) # NoTile /\ TileAt(board, b) # NoTile /\ TileAt(board, c) # NoTile
    /\ TileAt(board, a).kanaIndex = TileAt(board, b).kanaIndex
    /\ TileAt(board, b).kanaIndex = TileAt(board, c).kanaIndex
    /\ {TileAt(board, a).type, TileAt(board, b).type, TileAt(board, c).type}
          = SeqToSet(allTypes)

\* C1: in every reachable state of the reducer the selection holds at most 3
\* positions and no two selected positions hold tiles of the same type.
C1_SelectionInvariant ==
    /\ Len(state.selectedTiles) <= 3
    /\ \A i, j \in 1..Len(state.selectedTiles) :
          i # j => TileAt(state.board, state.selectedTiles[i]).type
                     # TileAt(state.board, state.selectedTiles[j]).type

\* three tiles are selected, by the user or by the auto-match sequence
C1_Witness == Len(state.selectedTiles) = 3 /\ state.autoMatchStep = 3

\* C2: from an input-accepting state with an empty selection, selecting the
\* three tiles of a complete triple in any order adds 1 to matches and 100 to
\* score, and ANIMATION_COMPLETE then empties those three cells and no other.
C2_MatchCorrectness ==
    (acceptsInput(state) /\ state.selectedTiles = << >>) =>
        \A a, b, c \in Positions :
            CompleteTriple(state.board, a, b, c) =>
                LET matched  == Select(Select(Select(state, a), b), c)
                    resolved == Acknowledge(matched)
                IN  /\ matched.matches = state.matches + 1
                    /\ matched.score = state.score + 100
                    /\ matched.animation = "match"
                    /\ \A p \in Positions :
                          TileAt(resolved.board, p) =
                             IF p \in {a, b, c} THEN NoTile ELSE TileAt(state.board, p)

\* a first match has been made and acknowledged
C2_Witness ==
    /\ state.matches = 1 /\ state.score = 100
    /\ state.playState = "SELECTING"
    /\ RemainingCount(state.board) = Rows * Cols - 3

\* tile A is the whole selection and B is a selectable tile of another type
\* and another kana index
EarlyMismatchCase(s, b) ==
    /\ acceptsInput(s)
    /\ Len(s.selectedTiles) = 1
    /\ TileAt(s.board, b) # NoTile
    /\ TileAt(s.board, b).type # TileAt(s.board, s.selectedTiles[1]).type
    /\ TileAt(s.board, b).kanaIndex # TileAt(s.board, s.selectedTiles[1]).kanaIndex

LateMismatchCase(s, c) ==
    /\ acceptsInput(s)
    /\ Len(s.selectedTiles) = 2
    /\ TileAt(s.board, s.selectedTiles[1]).kanaIndex
          = TileAt(s.board, s.selectedTiles[2]).kanaIndex
    /\ TileAt(s.board, c) # NoTile
    /\ TileAt(s.board, c).type \notin SelectedTypes(s)
    /\ TileAt(s.board, c).kanaIndex # TileAt(s.board, s.selectedTiles[1]).kanaIndex

C5_NoInputDuringAnimation ==
    (state.animation \in {"shake", "match"} \/ state.playState = "AUTO_MATCHING") =>
        \A p \in Positions : Select(state, p) = state

\* a match animation is in progress in a running game
C5_Witness ==
    /\ state.phase = "PLAYING" /\ state.animation = "match"
    /\ RemainingCount(state.board) = Rows * Cols

\* C6: SELECT_TILE on an empty cell, or on a cell whose type is represented in
\* the selection by another position, returns the state unchanged.
C6_InvalidSelectIsNoOp ==
    HasBoard(state) =>
        \A p \in Positions :
            (\/ TileAt(state.board, p) = NoTile
             \/ \E i \in 1..Len(state.selectedTiles) :
                   /\ state.selectedTiles[i] # p
                   /\ TileAt(state.board, state.selectedTiles[i]).type
                         = TileAt(state.board, p).type)
            => Select(state, p) = state

\* input is accepted, a tile is selected, and the board has empty cells
C6_Witness ==
    /\ acceptsInput(state)
    /\ Len(state.selectedTiles) = 1
    /\ RemainingCount(state.board) < Rows * Cols

\* C7: resolving a match leads to AUTO_MATCHING exactly when 3 tiles remain,
\* and AUTO_MATCHING starts with an empty selection at step 0.
C7_AutoMatchTrigger ==
    state.animation = "match" =>
        LET resolved == Acknowledge(state)
        IN  /\ resolved.playState = "AUTO_MATCHING"
                  <=> RemainingCount(resolved.board) = 3
            /\ resolved.playState = "AUTO_MATCHING" =>
                  /\ resolved.selectedTiles = << >>
                  /\ resolved.autoMatchStep = 0
                  /\ resolved.animation = "autoMatch"

\* AUTO_MATCHING has just been entered
C7_Witness ==
    /\ state.playState = "AUTO_MATCHING"
    /\ state.autoMatchStep = 0
    /\ state.matches = KanaPerBoard - 1

\* C8: once AUTO_MATCHING is entered the store, with no SELECT_TILE, gets the
\* last three cells emptied (unless a new game is started first).
C8_AutoMatchResolves ==
    (state.playState = "AUTO_MATCHING")
        ~> (RemainingCount(state.board) = 0 \/ state.playState = "WAITING_FIRST_MOVE")

\* C9: in AUTO_MATCHING the board holds exactly 3 tiles, of one kana index and
\* of three distinct types.
C9_AutoMatchTriple ==
    state.playState = "AUTO_MATCHING" =>
        LET left == RemainingPositions(state.board)
        IN  /\ Len(left) = 3
            /\ CompleteTriple(state.board, left[1], left[2], left[3])

\* the auto-match sequence has selected its three tiles
C9_Witness == state.playState = "AUTO_MATCHING" /\ state.autoMatchStep = 3

\* C10: in AUTO_MATCHING the timer is not running and TIMER_TICK changes
\* neither the clock nor the phase.
C10_ClockPaused ==
    state.playState = "AUTO_MATCHING" =>
        /\ ~state.timerRunning
        /\ gameReducer(state, TimerTickAction).timeRemaining = state.timeRemaining
        /\ gameReducer(state, TimerTickAction).phase = state.phase

\* AUTO_MATCHING with a clock that has run down
C10_Witness ==
    /\ state.playState = "AUTO_MATCHING"
    /\ state.timeRemaining < StartTime - MatchBonus

\* the state is a well-formed game state: every field has a value of its
\* kind and every selection entry is a position of the board
WellFormed(s) ==
    /\ s.phase \in GamePhase
    /\ s.playState \in PlayState \cup {Null}
    /\ s.animation \in {Null, "shake", "match", "autoMatch"}
    /\ Len(s.selectedTiles) <= 3
    /\ \A i \in 1..Len(s.selectedTiles) : s.selectedTiles[i] \in Positions
    /\ \A i \in 1..Len(s.animatingTiles) : s.animatingTiles[i] \in Positions
    /\ Len(s.board) \in {0, Rows}
    /\ \A r \in 1..Len(s.board) : Len(s.board[r]) = Cols
    /\ s.score \in Nat /\ s.matches \in Nat /\ s.level \in Nat \ {0}
    /\ s.timeRemaining \in 0..StartTime
    /\ s.timerRunning \in BOOLEAN
    /\ s.autoMatchStep \in 0..3

C12_OneCellPerType ==
    HasBoard(state) =>
        \A p, q \in Positions :
            (/\ p # q
             /\ TileAt(state.board, p) # NoTile
             /\ TileAt(state.board, q) # NoTile
             /\ TileAt(state.board, p).kanaIndex = TileAt(state.board, q).kanaIndex)
            => TileAt(state.board, p).type # TileAt(state.board, q).type

\* a triple has been removed and two tiles of another kana are selected
C12_Witness ==
    /\ state.playState = "SELECTING"
    /\ RemainingCount(state.board) = Rows * Cols - 3
    /\ Len(state.selectedTiles) = 2

\* C13: after START_GAME the board is Rows x Cols with every cell occupied,
\* holding KanaPerBoard distinct kana indices of the catalogue, each once per
\* type; the other KanaCount - KanaPerBoard kana are not on the board.
C13_InitialBoard ==
    state.playState = "WAITING_FIRST_MOVE" =>
        /\ Len(state.board) = Rows
        /\ \A r \in 1..Rows : Len(state.board[r]) = Cols
        /\ RemainingCount(state.board) = Rows * Cols
        /\ KanaOnBoard(state.board) \subseteq 0..(KanaCount - 1)
        /\ Cardinality(KanaOnBoard(state.board)) = KanaPerBoard
        /\ Cardinality((0..(KanaCount - 1)) \ KanaOnBoard(state.board))
              = KanaCount - KanaPerBoard
        /\ \A k \in KanaOnBoard(state.board) :
              \A i \in 1..NumTypes :
                 Cardinality({p \in Positions :
                                 TileAt(state.board, p)
                                    = [kanaIndex |-> k, type |-> allTypes[i]]}) = 1

\* a game has been started and no tile selected yet
C13_Witness == state.playState = "WAITING_FIRST_MOVE" /\ state.level = 1

\* C14: START_GAME in any state gives PLAYING / WAITING_FIRST_MOVE with the
\* supplied board and everything else as in a fresh state.
C14_StartGameResets ==
    \A board \in Boards, level \in 1..MaxLevel :
        gameReducer(state, StartGameAction(board, level)) =
            [phase          |-> "PLAYING",
             playState      |-> "WAITING_FIRST_MOVE",
             animation      |-> Null,
             animatingTiles |-> << >>,
             board          |-> board,
             selectedTiles  |-> << >>,
             score          |-> 0,
             matches        |-> 0,
             level          |-> level,
             timeRemaining  |-> 30,
             timerRunning   |-> FALSE,
             autoMatchStep  |-> 0]

\* the match that ends an auto-match sequence is being animated
C14_Witness ==
    /\ state.animation = "match"
    /\ state.autoMatchStep = 3
    /\ state.score > 0

\* C15: the state without a board is the MENU state of createInitialState,
\* and in MENU every event other than START_GAME returns the state unchanged.
C15_MenuIgnoresEvents ==
    /\ ~HasBoard(state) => state.phase = "MENU"
    /\ state.phase = "MENU" =>
          /\ state.playState = Null /\ state.animation = Null
          /\ state.selectedTiles = << >> /\ state.score = 0 /\ state.matches = 0
          /\ state.timeRemaining = 30 /\ ~state.timerRunning
          /\ \A p \in Positions : Select(state, p) = state
          /\ Acknowledge(state) = state
          /\ gameReducer(state, TimerTickAction) = state
          /\ gameReducer(state, AutoMatchStepAction) = state

\* the session has not been started
C15_Witness == state.phase = "MENU" /\ state.board = << >>

\* C16: ANIMATION_COMPLETE with no animation in progress returns the state
\* unchanged.
C16_StrayAnimationComplete ==
    state.animation = Null => Acknowledge(state) = state

\* no animation is in progress, two tiles are selected, a triple is gone
C16_Witness ==
    /\ state.animation = Null
    /\ Len(state.selectedTiles) = 2
    /\ RemainingCount(state.board) = Rows * Cols - 3
    /\ state.timeRemaining < StartTime

\* C17: in every reachable state every event has a successor that is a
\* well-formed state, with no undefined selection entry.
C17_Total ==
    /\ WellFormed(state)
    /\ \A board \in Boards, level \in 0..MaxLevel :
          WellFormed(gameReducer(state, StartGameAction(board, level)))
    /\ \A p \in Positions : WellFormed(Select(state, p))
    /\ WellFormed(Acknowledge(state))
    /\ WellFormed(gameReducer(state, TimerTickAction))
    /\ WellFormed(gameReducer(state, AutoMatchStepAction))

\* the auto-match sequence is about to take the last remaining tile
C17_Witness == state.playState = "AUTO_MATCHING" /\ state.autoMatchStep = 2

\* p is an unselected tile whose type is not in the selection, and input is
\* accepted
Selectable(s, p) ==
    /\ acceptsInput(s)
    /\ TileAt(s.board, p) # NoTile
    /\ p \notin SeqToSet(s.selectedTiles)
    /\ TileAt(s.board, p).type \notin SelectedTypes(s)

\* C18 as stated: selecting a selectable position twice gives the original
\* selection back whenever the first selection causes no mismatch.
C18_ToggleRoundTrip ==
    \A p \in Positions :
        (Selectable(state, p) /\ Select(state, p).animation # "shake") =>
            Select(Select(state, p), p).selectedTiles = state.selectedTiles

\* C18 (amended): selecting a selectable position twice gives the original
\* selection back whenever the first selection causes neither a mismatch nor
\* a match (it starts no animation).
C18_ToggleRoundTripNoAnimation ==
    \A p \in Positions :
        (Selectable(state, p) /\ Select(state, p).animation = Null) =>
            Select(Select(state, p), p).selectedTiles = state.selectedTiles

\* one tile is selected on a full board and input is accepted
C18_Witness ==
    /\ acceptsInput(state)
    /\ Len(state.selectedTiles) = 1
    /\ RemainingCount(state.board) = Rows * Cols

\* C20: every selected position is a position of the board that holds a tile.
C20_SelectionOnTiles ==
    \A i \in 1..Len(state.selectedTiles) :
        /\ state.selectedTiles[i] \in Positions
        /\ TileAt(state.board, state.selectedTiles[i]) # NoTile

\* the auto-match sequence has selected its first tile
C20_Witness == state.playState = "AUTO_MATCHING" /\ state.autoMatchStep = 1

C21_NeededAndFadedTypes ==
    LET ui == deriveUIState(state)
        n  == Len(state.selectedTiles)
    IN  /\ n \in {1, 2} =>
              SeqToSet(ui.neededTypes) = SeqToSet(allTypes) \ SelectedTypes(state)
        /\ n \in {0, 3} => ui.neededTypes = << >>
        /\ n \in 0..3
        /\ SeqToSet(ui.fadedTypes) = SelectedTypes(state)
        /\ Len(ui.fadedTypes) = n

\* two tiles of one kana are selected and one type is still needed
C21_Witness ==
    /\ Len(state.selectedTiles) = 2
    /\ state.animation = Null
    /\ Len(deriveUIState(state).neededTypes) = 1
    /\ Len(deriveUIState(state).fadedTypes) = 2

\* a set of three positions holding the three types of one kana index
IsTriple(board, tiles) ==
    \E a \in tiles, b \in tiles, c \in tiles :
        /\ tiles = {a, b, c}
        /\ CompleteTriple(board, a, b, c)

\* the positions of the board of a state (none before the first START_GAME)
BoardPositions(s) == SeqToSet(PositionsOf(s.board))

\* some kana index has its three types among the given positions of the board
HasCompleteKana(board, positions) ==
    \E k \in 0..(KanaCount - 1) :
        \A i \in 1..NumTypes :
            \E p \in positions :
                TileAt(board, p) = [kanaIndex |-> k, type |-> allTypes[i]]

\* C22 as stated: the hint is a complete triple none of whose tiles is
\* selected, and there is no hint only when no complete unselected triple is
\* on the board.
C22_HintUnselected ==
    LET tiles    == hintTiles(state)
        selected == SeqToSet(state.selectedTiles)
    IN  /\ tiles # {} => IsTriple(state.board, tiles) /\ tiles \cap selected = {}
        /\ tiles = {} =>
              ~HasCompleteKana(state.board, BoardPositions(state) \ selected)

\* C22: the hint is the three positions of a kana index whose three types are
\* all on the board, selected or not; there is no hint only when the board
\* holds no complete triple; the highlight on the game screen is that hint.
C22_HintCompleteTriple ==
    LET tiles == hintTiles(state)
    IN  /\ tiles # {} => IsTriple(state.board, tiles)
        /\ tiles = {} =>
              ~HasCompleteKana(state.board, BoardPositions(state))
        /\ state.phase = "PLAYING" => hint \in {{}, tiles}

\* showHint has highlighted a triple one tile of which is selected
C22_Witness ==
    /\ state.phase = "PLAYING"
    /\ hint # {}
    /\ hint = hintTiles(state)
    /\ hint \cap SeqToSet(state.selectedTiles) # {}

\* C23: a step in which showHint highlights something leaves the game state
\* (selection, board, playState, score, matches, clock) and the store's
\* timers as they were.
C23_HintReadOnly ==
    [][(hint' # hint /\ hint' # {}) => (state' = state /\ UNCHANGED storeVars)]_vars

\* a hint is shown in the middle of a game: tiles matched, one selected, clock running
C23_Witness ==
    /\ hint # {}
    /\ state.playState = "SELECTING"
    /\ state.matches >= 1
    /\ Len(state.selectedTiles) >= 1
    /\ state.timerRunning

\* C24: before the first selection of a game (WAITING_FIRST_MOVE) the timer is
\* not running and TIMER_TICK changes nothing; a SELECT_TILE on a tile is
\* accepted there, sets timerRunning and moves playState to SELECTING with
\* the clock still at its starting value.
C24_ClockStartsAtFirstSelect ==
    state.playState = "WAITING_FIRST_MOVE" =>
        /\ ~state.timerRunning
        /\ state.timeRemaining = StartTime
        /\ gameReducer(state, TimerTickAction) = state
        /\ \A p \in BoardPositions(state) :
              /\ TileAt(state.board, p) # NoTile => Select(state, p) # state
              /\ Select(state, p) # state =>
                    /\ Select(state, p).timerRunning
                    /\ Select(state, p).playState = "SELECTING"
                    /\ Select(state, p).selectedTiles = <<p>>
                    /\ Select(state, p).timeRemaining = state.timeRemaining
                    /\ gameReducer(Select(state, p), TimerTickAction).timeRemaining
                          = state.timeRemaining - 1

\* the first tile of a game has just been selected
C24_Witness ==
    /\ state.playState = "SELECTING"
    /\ Len(state.selectedTiles) = 1
    /\ state.timerRunning
    /\ state.timeRemaining = StartTime
    /\ state.score = 0

\* C25: whenever playState is LEVEL_COMPLETE the timer is not running and a
\* TIMER_TICK changes neither the clock nor anything else (it cannot end the
\* game).
C25_ClockFrozenOnCompletion ==
    state.playState = "LEVEL_COMPLETE" =>
        /\ ~state.timerRunning
        /\ gameReducer(state, TimerTickAction) = state

\* a level completed after the clock had run down some way
C25_Witness ==
    /\ state.playState = "LEVEL_COMPLETE"
    /\ state.phase = "PLAYING"
    /\ state.timeRemaining < StartTime - MatchBonus
    /\ state.matches = LevelMatches

\* C26: in every reachable state playState is non-null exactly when phase is
\* PLAYING (so never GAME_OVER with playState SELECTING, AUTO_MATCHING or
\* LEVEL_COMPLETE), and animation is 'shake' only in SHAKING, 'match' only in
\* MATCHING and 'autoMatch' only in AUTO_MATCHING.
C26_ImpossibleStates ==
    /\ (state.playState # Null) <=> (state.phase = "PLAYING")
    /\ state.animation = "shake" => state.playState = "SHAKING"
    /\ state.animation = "match" => state.playState = "MATCHING"
    /\ state.animation = "autoMatch" => state.playState = "AUTO_MATCHING"

\* C27: with one tile selected in SELECTING, selecting a second tile of the
\* same kanaIndex keeps the game in SELECTING with both tiles selected in
\* order, starts no animation and leaves score, matches and board unchanged.
C27_SameKanaSecondTile ==
    \A p \in BoardPositions(state) :
        ( /\ state.phase = "PLAYING"
          /\ state.playState = "SELECTING"
          /\ state.animation = Null
          /\ Len(state.selectedTiles) = 1
          /\ p # state.selectedTiles[1]
          /\ TileAt(state.board, p) # NoTile
          /\ TileAt(state.board, p).kanaIndex
                = TileAt(state.board, state.selectedTiles[1]).kanaIndex )
        => /\ Select(state, p).playState = "SELECTING"
           /\ Select(state, p).selectedTiles = <<state.selectedTiles[1], p>>
           /\ Select(state, p).animation = Null
           /\ Select(state, p).animatingTiles = << >>
           /\ Select(state, p).score = state.score
           /\ Select(state, p).matches = state.matches
           /\ Select(state, p).board = state.board

\* two tiles of one kana are selected, in SELECTING, after an earlier match
C27_Witness ==
    /\ state.phase = "PLAYING"
    /\ state.playState = "SELECTING"
    /\ state.animation = Null
    /\ Len(state.selectedTiles) = 2
    /\ TileAt(state.board, state.selectedTiles[1]).kanaIndex
          = TileAt(state.board, state.selectedTiles[2]).kanaIndex
    /\ state.matches = 1

\* p comes before q in the order of board.forEach(row.forEach)
RowMajorBefore(p, q) == p.row < q.row \/ (p.row = q.row /\ p.col < q.col)

\* C28: in AUTO_MATCHING the selection is the first autoMatchStep remaining
\* tiles of the board in row-major order (an order fixed by the board alone);
\* each of the first three AUTO_MATCH_STEPs adds exactly the next of them
\* and resolves nothing, and only the step after the third starts the match;
\* in any other playState AUTO_MATCH_STEP is a no-op.
C28_AutoMatchOrder ==
    LET next     == gameReducer(state, AutoMatchStepAction)
        selected == SeqToSet(state.selectedTiles)
        step     == state.autoMatchStep
    IN  /\ state.playState # "AUTO_MATCHING" => next = state
        /\ state.playState = "AUTO_MATCHING" =>
              /\ step \in 0..3
              /\ Len(state.selectedTiles) = step
              /\ \A i \in 1..step, j \in 1..step :
                    i < j => RowMajorBefore(state.selectedTiles[i], state.selectedTiles[j])
              /\ \A p \in selected : TileAt(state.board, p) # NoTile
              /\ \A p \in selected, q \in BoardPositions(state) \ selected :
                    TileAt(state.board, q) # NoTile => RowMajorBefore(p, q)
              /\ step < 3 =>
                    /\ Len(next.selectedTiles) = step + 1
                    /\ \A i \in 1..step : next.selectedTiles[i] = state.selectedTiles[i]
                    /\ next.autoMatchStep = step + 1
                    /\ next.playState = "AUTO_MATCHING"
                    /\ next.animation = "autoMatch"
                    /\ next.board = state.board
                    /\ next.matches = state.matches
                    /\ next.score = state.score
              /\ step = 3 =>
                    /\ next.playState = "MATCHING"
                    /\ next.animation = "match"
                    /\ next.selectedTiles = state.selectedTiles
                    /\ next.animatingTiles = state.selectedTiles
                    /\ next.matches = state.matches + 1

\* the auto-match sequence has selected two tiles, the clock having run
C28_Witness ==
    /\ state.playState = "AUTO_MATCHING"
    /\ state.autoMatchStep = 2
    /\ Len(state.selectedTiles) = 2
    /\ state.timeRemaining < StartTime

\* C29: under GameStore with its timers firing, a state in SHAKING or
\* MATCHING (a 'shake' or 'match' animation, the match that ends an
\* auto-match sequence included) is always followed by a state that is in
\* neither: the game does not remain in SHAKING or MATCHING forever.
C29_AnimationCompletes ==
    (state.playState \in {"SHAKING", "MATCHING"})
        ~> (state.playState \notin {"SHAKING", "MATCHING"})

\* C30: under GameStore with its timers firing, once the player has made all
\* matches but the last in time (LevelMatches - 1 of them, the auto-match
\* sequence being entered), playState eventually becomes LEVEL_COMPLETE with
\* an empty board and matches = LevelMatches - the state from which the
\* START_GAME of the next level is scheduled - unless a new game is started
\* first.
C30_LevelCompletes ==
    ( /\ state.phase = "PLAYING"
      /\ state.playState = "AUTO_MATCHING"
      /\ state.matches = LevelMatches - 1 )
        ~> ( \/ /\ state.playState = "LEVEL_COMPLETE"
                /\ RemainingCount(state.board) = 0
                /\ state.matches = LevelMatches
             \/ state.matches < LevelMatches - 1 )

Outcome(s) ==
    <<s.score, s.matches, s.board, s.selectedTiles, s.playState>>

\* C32: in GAME_OVER none of the events that may still be pending in the
\* store (ANIMATION_COMPLETE of a pending animation timeout, AUTO_MATCH_STEP
\* of a pending auto-match timeout, TIMER_TICK, SELECT_TILE) changes score,
\* matches, board, selection or playState, and no level-complete timeout is
\* left to dispatch START_GAME.
C32_GameOverFrozen ==
    state.phase = "GAME_OVER" =>
        /\ animationTimeouts > 0 => Outcome(Acknowledge(state)) = Outcome(state)
        /\ autoMatchTimeouts > 0 =>
              Outcome(gameReducer(state, AutoMatchStepAction)) = Outcome(state)
        /\ Outcome(gameReducer(state, TimerTickAction)) = Outcome(state)
        /\ \A p \in BoardPositions(state) : Outcome(Select(state, p)) = Outcome(state)
        /\ levelTimeouts = << >>

\* C33: in every reachable state score = MatchScore * matches, and matches
\* never exceeds the number of triples of a board (LevelMatches).
C33_ScoreAndMatches ==
    /\ state.score = MatchScore * state.matches
    /\ state.matches \in 0..LevelMatches

\* every triple of the board has been matched
C33_Witness ==
    /\ state.matches = LevelMatches
    /\ state.score = MatchScore * LevelMatches
    /\ RemainingCount(state.board) = 0

\* C34: on a generated board the number of non-empty cells is
\* Rows * Cols - 3 * matches when no match animation is in progress and
\* Rows * Cols - 3 * (matches - 1) while one is, and every kana index on the
\* board has its three types present (the board consists of whole triples).
C34_BoardCount ==
    HasBoard(state) =>
        /\ state.animation # "match" =>
              RemainingCount(state.board) = Rows * Cols - NumTypes * state.matches
        /\ state.animation = "match" =>
              RemainingCount(state.board) = Rows * Cols - NumTypes * (state.matches - 1)
        /\ \A k \in KanaOnBoard(state.board) :
              \A i \in 1..NumTypes :
                  \E p \in BoardPositions(state) :
                      TileAt(state.board, p) = [kanaIndex |-> k, type |-> allTypes[i]]

\* a second match is being animated: one triple gone, one about to go
C34_Witness ==
    /\ state.animation = "match"
    /\ state.matches = 2
    /\ RemainingCount(state.board) = Rows * Cols - NumTypes

\* C35: timeRemaining is always within 0..StartTime; a TIMER_TICK while the
\* timer runs takes exactly 1 off, or, exactly when that would leave 0 or
\* less, sets GAME_OVER with the timer stopped and timeRemaining 0; a tick
\* while the timer does not run changes nothing; an event that adds a match
\* adds MatchBonus capped at StartTime, and no event other than that tick
\* makes the phase GAME_OVER.
C35_ClockRange ==
    LET tick == gameReducer(state, TimerTickAction)
        step == gameReducer(state, AutoMatchStepAction)
    IN  /\ state.timeRemaining \in 0..StartTime
        /\ ~state.timerRunning => tick = state
        /\ (state.timerRunning /\ state.timeRemaining - 1 > 0) =>
              /\ tick.timeRemaining = state.timeRemaining - 1
              /\ tick.phase = state.phase
              /\ tick.timerRunning
        /\ (state.timerRunning /\ state.timeRemaining - 1 <= 0) =>
              /\ tick.phase = "GAME_OVER"
              /\ ~tick.timerRunning
              /\ tick.timeRemaining = 0
        /\ step.matches = state.matches + 1 =>
              step.timeRemaining = Min(state.timeRemaining + MatchBonus, StartTime)
        /\ step.phase = state.phase
        /\ Acknowledge(state).phase = state.phase
        /\ Acknowledge(state).timeRemaining = state.timeRemaining
        /\ \A p \in BoardPositions(state) :
              /\ Select(state, p).phase = state.phase
              /\ Select(state, p).timeRemaining =
                    IF Select(state, p).matches = state.matches + 1
                    THEN Min(state.timeRemaining + MatchBonus, StartTime)
                    ELSE state.timeRemaining

\* the last second of a game: the next tick ends it
C35_Witness ==
    /\ state.phase = "PLAYING"
    /\ state.timerRunning
    /\ state.timeRemaining = 1
    /\ state.matches >= 1

\* what a wrong selection must leave alone
Stakes(s) == <<s.score, s.matches, s.board, s.timeRemaining>>

\* C36: a mismatch on the second or on the third tile, and the
\* ANIMATION_COMPLETE that resolves it, leave score, matches, board and
\* timeRemaining unchanged.
C36_MismatchFree ==
    /\ \A p \in BoardPositions(state) :
          (EarlyMismatchCase(state, p) \/ LateMismatchCase(state, p)) =>
              /\ Select(state, p).animation = "shake"
              /\ Stakes(Select(state, p)) = Stakes(state)
              /\ Stakes(Acknowledge(Select(state, p))) = Stakes(state)
    /\ state.animation = "shake" => Stakes(Acknowledge(state)) = Stakes(state)

\* a mismatch on the third tile is shaking, after a match was scored and
\* with time already run down
C36_Witness ==
    /\ state.animation = "shake"
    /\ Len(state.selectedTiles) = 3
    /\ state.matches >= 1
    /\ state.timeRemaining < StartTime

\* the cells that hold a tile in s and none in the state after
Emptied(s, after) ==
    {p \in BoardPositions(s) :
        TileAt(s.board, p) # NoTile /\ TileAt(after.board, p) = NoTile}

\* C37: ANIMATION_COMPLETE resolving a match empties exactly the three
\* animating cells, leaves every other cell, the score and the match count
\* unchanged, and clears the selection and the animating-tiles list.
C37_MatchResolution ==
    state.animation = "match" =>
        LET after == Acknowledge(state)
            gone  == Emptied(state, after)
        IN  /\ Cardinality(gone) = 3
            /\ gone = SeqToSet(state.animatingTiles)
            /\ \A p \in BoardPositions(state) \ gone :
                  TileAt(after.board, p) = TileAt(state.board, p)
            /\ after.score = state.score
            /\ after.matches = state.matches
            /\ after.selectedTiles = << >>
            /\ after.animatingTiles = << >>

\* a match by the player is animating and other tiles stay on the board
C37_Witness ==
    /\ state.animation = "match"
    /\ state.playState = "MATCHING"
    /\ Len(state.selectedTiles) = 3
    /\ RemainingCount(state.board) > 3

\* after a dispatch the store holds one interval when the state says the
\* timer runs, and none otherwise
OneIntervalWhenRunning ==
    /\ intervals \in {0, 1}
    /\ (intervals = 1) <=> state.timerRunning
    /\ timerId <=> state.timerRunning

\* C38: under GameStore at most one tick interval exists after every
\* dispatch, one exists exactly when state.timerRunning is true, and the
\* interval callback dispatches TIMER_TICK only while the timer runs: a
\* stopped timer dispatches nothing.
C38_SingleInterval ==
    /\ []OneIntervalWhenRunning
    /\ [][TickInterval => state.timerRunning]_vars

\* auto-match has stopped a timer that ran
C38_Witness ==
    /\ state.playState = "AUTO_MATCHING"
    /\ ~state.timerRunning
    /\ intervals = 0
    /\ ~timerId
    /\ state.timeRemaining < StartTime

\* a cell the rules let the player pick: it holds a tile and either is
\* selected already (picking it deselects it) or its type is not selected
SelectableCell(s, p) ==
    /\ TileAt(s.board, p) # NoTile
    /\ \/ p \in SeqToSet(s.selectedTiles)
       \/ TileAt(s.board, p).type \notin SelectedTypes(s)

\* on every selectable tile, canInteract says whether selecting it changes
\* the state
AgreesOnTiles(s) ==
    \A p \in BoardPositions(s) :
        SelectableCell(s, p) =>
            (deriveUIState(s).canInteract <=> Select(s, p) # s)

\* C39: in every reachable state canInteract is true exactly when the reducer
\* accepts SELECT_TILE, that is when its guard lets a selection through and
\* selecting a non-empty, selectable cell changes the state.
C39_CanInteractAgrees ==
    /\ deriveUIState(state).canInteract <=> acceptsInput(state)
    /\ AgreesOnTiles(state)

====
